---- MODULE Spec2Model ----
(***************************************************************************)
(* Model of main.py: the depth-bounded query scheduler                     *)
(* (execute_dynamic_search, driven by main_flow) and the citation merger   *)
(* (process_citations) that renumbers the result file.                     *)
(*                                                                         *)
(* Text is a sequence of tokens.  A token stands for a fixed string with   *)
(* no white space inside: one character ("[", "]", "#", ".", "+", a digit, *)
(* " ", "\n") or a word whose characters no regular expression of the      *)
(* program distinguishes ("q1", "x", "citations", "http://a").             *)
(***************************************************************************)
EXTENDS Integers, Sequences, FiniteSets, TLC

VARIABLES
    task_plan,          \* main_flow: task_plan["sub_questions"], a sequence of seed lists
    mpc,                \* position of main_flow / execute_dynamic_search
    sq,                 \* index of the sub-question whose session is running
    search_queue,       \* execute_dynamic_search: deque of queries
    processed,          \* execute_dynamic_search: set of seen queries
    results,            \* execute_dynamic_search: contents collected by the session
    depth,              \* loop variable of "for depth in range(MAX_SEARCH_DEPTH + 1)"
    current_results,    \* contents of the current wave
    tasks,              \* queries of the searches created for the current wave
    api_responses,      \* per task: NoResponse while in flight, else the returned dict
    history,            \* conversation_history, shared by every call_openrouter
    file,               \* contents of SEARCH_RESULTS_FILE (FileMissing before the first write)
    dispatched,         \* every search handed to the provider: <<sub-question, wave, query>>
    judge_calls,        \* every judge call: sub-question, wave, results given, messages sent
    analysis_response,  \* execute_dynamic_search: the judge's last answer
    faults,             \* provider failures so far in the run (searches and judge calls)
    suggested,          \* queries the judge has suggested so far in the run
    sections,           \* process_citations: the list "sections"
    sidx,               \* process_citations: loop index i (1-based)
    current_global_id,  \* process_citations: the running counter
    global_citations,   \* process_citations: the list "global_citations"
    citation_maps,      \* process_citations: citation_map built for each section index
    merged              \* SEARCH_RESULT_FILE_WITH_GLOBAL_CITATIONS (NotWritten before the merge)

vars == << task_plan, mpc, sq, search_queue, processed, results, depth,
           current_results, tasks, api_responses, history, file, dispatched,
           judge_calls, analysis_response, faults, suggested, sections, sidx,
           current_global_id, global_citations, citation_maps, merged >>

schedVars == << task_plan, sq, search_queue, processed, results, depth,
                current_results, tasks, api_responses, history, dispatched,
                judge_calls, analysis_response, faults, suggested >>

mergeVars == << sections, sidx, current_global_id, global_citations,
                citation_maps, merged >>

(***************************************************************************)
(* Program constants                                                       *)
(***************************************************************************)
MAX_SEARCH_DEPTH == 2

(***************************************************************************)
(* Tokens and generic text helpers                                         *)
(***************************************************************************)
Digits == <<"0", "1", "2", "3", "4", "5", "6", "7", "8", "9">>

IsDigit(t) == \E k \in 1..10 : Digits[k] = t

DigitVal(t) == (CHOOSE k \in 1..10 : Digits[k] = t) - 1

\* \s of the regular expressions, and the characters str.strip() removes
IsSpace(t) == t \in {" ", "\n"}

\* s[a..b], empty when b < a
Slice(s, a, b) == IF b < a THEN << >> ELSE SubSeq(s, a, b)

\* does the literal pat occur in s at position p
StartsWith(s, p, pat) ==
    /\ p >= 1
    /\ p + Len(pat) - 1 <= Len(s)
    /\ \A k \in 1..Len(pat) : s[p + k - 1] = pat[k]

RECURSIVE Concat(_)
Concat(ss) == IF ss = << >> THEN << >> ELSE Head(ss) \o Concat(Tail(ss))

\* sep.join(ss)
RECURSIVE Join(_, _)
Join(ss, sep) ==
    IF ss = << >> THEN << >>
    ELSE IF Len(ss) = 1 THEN ss[1]
    ELSE ss[1] \o sep \o Join(Tail(ss), sep)

\* str(n) for n >= 0
RECURSIVE Str(_)
Str(n) == IF n < 10 THEN << Digits[n + 1] >>
          ELSE Str(n \div 10) \o << Digits[(n % 10) + 1] >>

\* int(ds) for a non-empty sequence of digits
RECURSIVE ToInt(_)
ToInt(ds) == IF Len(ds) = 1 THEN DigitVal(ds[1])
             ELSE 10 * ToInt(SubSeq(ds, 1, Len(ds) - 1)) + DigitVal(ds[Len(ds)])

\* last position of the maximal run of tokens satisfying the class that starts
\* at p (p - 1 when s[p] is not in the class)
RECURSIVE RunEnd(_, _, _)
RunEnd(s, p, class) ==
    IF p <= Len(s) /\ s[p] \in class THEN RunEnd(s, p + 1, class) ELSE p - 1

DigitSet == {Digits[k] : k \in 1..10}

TokensOf(s) == {s[k] : k \in 1..Len(s)}

\* smallest element of a non-empty set of integers
Min(S) == CHOOSE q \in S : \A r \in S : q <= r

(***************************************************************************)
(* save_search_result: the block appended to the result file               *)
(***************************************************************************)
NoCitationsLine == <<"No", " ", "citations", " ", "available", "\n">>

\* the lines "i. url\n" for enumerate(citations, 1)
RECURSIVE CitationLines(_, _)
CitationLines(citations, i) ==
    IF i > Len(citations) THEN << >>
    ELSE Str(i) \o <<".", " ">> \o citations[i] \o <<"\n">>
         \o CitationLines(citations, i + 1)

SaveSearchResult(query, result) ==
    <<"#", " ">> \o query \o <<"\n">>
    \o <<"#", "#", " ", "content", "\n">>
    \o result.content \o <<"\n">>
    \o <<"#", "#", " ", "citations", "\n">>
    \o (IF result.citations # << >> THEN CitationLines(result.citations, 1)
        ELSE NoCitationsLine)
    \o <<"***", "\n", "\n">>

(***************************************************************************)
(* process_citations: the regular expressions                              *)
(***************************************************************************)
\* (?=^# .+$) with re.MULTILINE: a line that starts with "# " and has at
\* least one more character
IsHeaderStart(doc, p) ==
    /\ p = 1 \/ doc[p - 1] = "\n"
    /\ StartsWith(doc, p, <<"#", " ">>)
    /\ p + 2 <= Len(doc)
    /\ doc[p + 2] # "\n"

\* re.split on the empty matches: a piece ends before every header start;
\* from is the start of the current piece, headers are looked for from p on
RECURSIVE SplitAt(_, _, _)
SplitAt(doc, from, p) ==
    LET starts == {q \in p..Len(doc) : IsHeaderStart(doc, q)} IN
    IF starts = {} THEN << Slice(doc, from, Len(doc)) >>
    ELSE << Slice(doc, from, Min(starts) - 1) >>
         \o SplitAt(doc, Min(starts), Min(starts) + 1)

SplitSections(doc) == SplitAt(doc, 1, 1)

\* not section.strip()
IsBlank(section) == \A k \in 1..Len(section) : IsSpace(section[k])

CitationsLiteral == <<"#", "#", " ", "citations", "\n">>

\* where r'## citations\n([\s\S]+?)(?=\n##|\Z)' can match: the literal
\* followed by at least one character
IsCitationsStart(s, p) ==
    /\ StartsWith(s, p, CitationsLiteral)
    /\ p + Len(CitationsLiteral) <= Len(s)

\* end of the lazy group [\s\S]+? that holds s[e] already: the first
\* position followed by "\n##" or by the end of the string
GroupEnd(s, e) ==
    Min({f \in e..Len(s) : f = Len(s) \/ StartsWith(s, f + 1, <<"\n", "#", "#">>)})

HasCitationsBlock(section) ==
    \E p \in 1..Len(section) : IsCitationsStart(section, p)

\* citations_match.group(1) of the first match
CitationsGroup(section) ==
    LET p == Min({q \in 1..Len(section) : IsCitationsStart(section, q)})
        gs == p + Len(CitationsLiteral)
    IN  Slice(section, gs, GroupEnd(section, gs))

Urls == {"http://a", "http://b", "http://c"}

\* https?://\S+ can start at this token
IsUrl(t) == t \in Urls

\* r'\d+\.\s+(https?://\S+)' matched at position p: digits, ".", white
\* space, then the URL up to the next white space.  from: where group 1
\* starts, to: where the match ends; from = 0 when there is no match at p.
UrlMatch(g, p) ==
    LET d == RunEnd(g, p, DigitSet)
        w == RunEnd(g, d + 2, {" ", "\n"})
        u == RunEnd(g, w + 2, TokensOf(g) \ {" ", "\n"})
    IN  IF /\ d >= p
           /\ d + 1 <= Len(g) /\ g[d + 1] = "."
           /\ w >= d + 2
           /\ w + 1 <= Len(g) /\ IsUrl(g[w + 1])
        THEN [from |-> w + 1, to |-> u]
        ELSE [from |-> 0, to |-> 0]

\* re.findall(r'\d+\.\s+(https?://\S+)', g), scanning from position p
RECURSIVE FindUrls(_, _)
FindUrls(g, p) ==
    LET hits == {q \in p..Len(g) : UrlMatch(g, q).from # 0} IN
    IF hits = {} THEN << >>
    ELSE LET m == UrlMatch(g, Min(hits))
         IN  << Slice(g, m.from, m.to) >> \o FindUrls(g, m.to + 1)

LocalCitations(section) == FindUrls(CitationsGroup(section), 1)

\* CitationMap with a counter that restarts in every section
CitationMapLocal(local_citations, gid) ==
    [local_id \in 1..Len(local_citations) |-> local_id]

\* citation_map after the enumerate loop that starts with the counter at gid
CitationMap(local_citations, gid) ==
    [local_id \in 1..Len(local_citations) |-> gid + local_id]

\* the strings appended to global_citations by that loop
GlobalEntries(local_citations, gid) ==
    [local_id \in 1..Len(local_citations) |->
        Str(gid + local_id) \o <<".", " ">> \o local_citations[local_id]]

\* last "]" of the run s[a..b]
LastBracket(s, a, b) == CHOOSE e \in a..b :
    s[e] = "]" /\ \A f \in (e + 1)..b : s[f] # "]"

\* end of the match of r'\[\d+(?:][\d+]*)*\]' that starts at p, 0 when there
\* is none: "[", digits, then a run over "]", digits and "+" that starts with
\* "]", cut at its last "]"
MarkerEnd(s, p) ==
    IF p > Len(s) \/ s[p] # "[" THEN 0
    ELSE LET d == RunEnd(s, p + 1, DigitSet)
             r == RunEnd(s, d + 1, DigitSet \cup {"]", "+"})
         IN  IF d >= p + 1 /\ d + 1 <= Len(s) /\ s[d + 1] = "]"
             THEN LastBracket(s, d + 1, r)
             ELSE 0

\* [int(id) for id in re.findall(r'\d+', m)]
RECURSIVE NumbersIn(_, _)
NumbersIn(m, p) ==
    LET ds == {q \in p..Len(m) : IsDigit(m[q])} IN
    IF ds = {} THEN << >>
    ELSE LET e == RunEnd(m, Min(ds), DigitSet)
         IN  << ToInt(Slice(m, Min(ds), e)) >> \o NumbersIn(m, e + 1)

\* replace_citation: the replacement text; citation_map[id] raises KeyError
\* for an id that is not a key
ReplaceCitation(local_ids, citation_map) ==
    <<"[">>
    \o Join([k \in 1..Len(local_ids) |-> Str(citation_map[local_ids[k]])],
            <<"]", "[">>)
    \o <<"]">>

\* re.sub(r'\[\d+(?:][\d+]*)*\]', replace_citation, s) from position p;
\* ok = FALSE when replace_citation raised KeyError
RECURSIVE SubMarkers(_, _, _)
SubMarkers(s, p, citation_map) ==
    LET starts == {q \in p..Len(s) : MarkerEnd(s, q) # 0} IN
    IF starts = {} THEN [ok |-> TRUE, text |-> Slice(s, p, Len(s))]
    ELSE
      LET b == Min(starts)
          e == MarkerEnd(s, b)
          local_ids == NumbersIn(Slice(s, b, e), 1)
      IN  IF \E k \in 1..Len(local_ids) : local_ids[k] \notin DOMAIN citation_map
          THEN [ok |-> FALSE, text |-> << >>]
          ELSE LET rest == SubMarkers(s, e + 1, citation_map)
               IN  [ok |-> rest.ok,
                    text |-> Slice(s, p, b - 1)
                             \o ReplaceCitation(local_ids, citation_map)
                             \o rest.text]

\* the matches re.sub hands to replace_citation, from position p on: the
\* local ids of each match
RECURSIVE MarkerMatches(_, _)
MarkerMatches(s, p) ==
    LET starts == {q \in p..Len(s) : MarkerEnd(s, q) # 0} IN
    IF starts = {} THEN << >>
    ELSE << NumbersIn(Slice(s, Min(starts), MarkerEnd(s, Min(starts))), 1) >>
         \o MarkerMatches(s, MarkerEnd(s, Min(starts)) + 1)

\* CitationsBlock that keeps the local numbers
CitationsBlockLocal(local_citations, citation_map) ==
    CitationsLiteral
    \o Join([id \in 1..Len(local_citations) |->
                Str(id) \o <<".", " ">> \o local_citations[id]],
            <<"\n">>)

\* the replacement of the citations block: "## citations\n" and the lines
\* "<global id>. <url>" joined with "\n"
CitationsBlock(local_citations, citation_map) ==
    CitationsLiteral
    \o Join([id \in 1..Len(local_citations) |->
                Str(citation_map[id]) \o <<".", " ">> \o local_citations[id]],
            <<"\n">>)

\* re.sub(r'## citations\n[\s\S]+?(?=\n##|\Z)', repl, s) from position p
RECURSIVE SubCitationsBlock(_, _, _)
SubCitationsBlock(s, p, repl) ==
    LET starts == {q \in p..Len(s) : IsCitationsStart(s, q)} IN
    IF starts = {} THEN Slice(s, p, Len(s))
    ELSE Slice(s, p, Min(starts) - 1) \o repl
         \o SubCitationsBlock(
                s, GroupEnd(s, Min(starts) + Len(CitationsLiteral)) + 1, repl)

\* NonEmpty that keeps only the sections that were renumbered
RECURSIVE OnlyRenumbered(_)
OnlyRenumbered(ss) ==
    IF ss = << >> THEN << >>
    ELSE IF ~HasCitationsBlock(Head(ss)) THEN OnlyRenumbered(Tail(ss))
         ELSE << Head(ss) >> \o OnlyRenumbered(Tail(ss))

\* filter(None, sections)
RECURSIVE NonEmpty(_)
NonEmpty(ss) ==
    IF ss = << >> THEN << >>
    ELSE IF Head(ss) = << >> THEN NonEmpty(Tail(ss))
         ELSE << Head(ss) >> \o NonEmpty(Tail(ss))

\* file values that are not a text: no token sequence of the model equals them
FileMissing == << "<missing>" >>
NotWritten == << "<not written>" >>

(***************************************************************************)
(* process_citations: the steps                                            *)
(***************************************************************************)
\* lines 106-114: read the file, split it, initialise the counter.  open()
\* raises FileNotFoundError when no search result was ever saved;
\* generate_research_report catches it (line 275).
ReadAndSplit ==
    /\ mpc = "merge_read"
    /\ IF file = FileMissing
       THEN /\ mpc' = "merge_failed"
            /\ UNCHANGED mergeVars
       ELSE /\ sections' = SplitSections(file)
            /\ sidx' = 1
            /\ current_global_id' = 0
            /\ global_citations' = << >>
            /\ citation_maps' = << >>
            /\ mpc' = "merge_loop"
            /\ UNCHANGED merged
    /\ UNCHANGED << schedVars, file >>

\* lines 117-153: one iteration of "for i, section in enumerate(sections)"
ProcessSection ==
    /\ mpc = "merge_loop"
    /\ sidx <= Len(sections)
    /\ LET section == sections[sidx] IN
       IF IsBlank(section) \/ ~HasCitationsBlock(section)
       THEN \* continue
            /\ sidx' = sidx + 1
            /\ UNCHANGED << mpc, sections, current_global_id,
                            global_citations, citation_maps >>
       ELSE LET local_citations == LocalCitations(section)
                citation_map == CitationMap(local_citations, current_global_id)
                marked == SubMarkers(section, 1, citation_map)
            IN  /\ current_global_id' = current_global_id + Len(local_citations)
                /\ global_citations' = global_citations
                       \o GlobalEntries(local_citations, current_global_id)
                /\ citation_maps' =
                       Append(citation_maps, [section |-> sidx, map |-> citation_map])
                /\ IF marked.ok
                   THEN /\ sections' = [sections EXCEPT ![sidx] =
                               SubCitationsBlock(marked.text, 1,
                                   CitationsBlock(local_citations, citation_map))]
                        /\ sidx' = sidx + 1
                        /\ mpc' = mpc
                   ELSE \* KeyError leaves process_citations
                        /\ mpc' = "merge_failed"
                        /\ UNCHANGED << sections, sidx >>
    /\ UNCHANGED << schedVars, file, merged >>

\* lines 156-160: join the pieces and write the merged file
WriteMerged ==
    /\ mpc = "merge_loop"
    /\ sidx > Len(sections)
    /\ merged' = Join(NonEmpty(sections), <<"\n">>)
    /\ mpc' = "report"
    /\ UNCHANGED << schedVars, file, sections, sidx, current_global_id,
                    global_citations, citation_maps >>

(***************************************************************************)
(* Bounds and input sets                                                   *)
(***************************************************************************)
MaxSubQuestions == 2    \* sub-questions of a task plan
MaxSeeds == 2           \* seed queries of a sub-question
MaxSuggest == 2         \* queries in one judge suggestion list
MaxSuggested == 2       \* queries the judge suggests during one run
MaxFaults == 1          \* provider failures during one run

Queries == {"q1", "q2", "q3"}

SeedQueries == {"q1", "q2"}

SeqsUpTo(S, n) == UNION {[1..k -> S] : k \in 0..n}

SeedLists == SeqsUpTo(SeedQueries, MaxSeeds) \ {<< >>}

TaskPlans == SeqsUpTo(SeedLists, MaxSubQuestions)

\* the slot of a search that has not returned yet
NoResponse == [query |-> "", content |-> << >>, citations |-> << >>]

\* call_perplexity_async, line 87: f"Search Error: {str(e)}"
SearchError == <<"Search", " ", "Error:", " ", "timeout">>

\* what the provider can answer to a search (lines 79-83)
SearchAnswers ==
    { [content |-> <<"x", "[", "1", "]">>, citations |-> <<"http://a">>] }

\* what a failed search returns (line 87)
SearchFailure == [content |-> SearchError, citations |-> << >>]

(***************************************************************************)
(* call_openrouter and the judge's answer                                  *)
(***************************************************************************)
\* What call_openrouter returns to the judge call.  kind = "error": the
\* dict of line 44.  kind = "text": the model's text, described by what its
\* first ```json block holds: block = "none" (no fenced block), "invalid"
\* (not JSON), "scalar" (a JSON number or null), "object" (a JSON object
\* with the keys of .keys and the list .new_query).
JudgeResponses ==
    { [kind |-> "error", block |-> "none", keys |-> {}, new_query |-> << >>],
      [kind |-> "text", block |-> "none", keys |-> {}, new_query |-> << >>],
      [kind |-> "text", block |-> "invalid", keys |-> {}, new_query |-> << >>],
      [kind |-> "text", block |-> "scalar", keys |-> {}, new_query |-> << >>],
      [kind |-> "text", block |-> "object", keys |-> {"missing_info"},
       new_query |-> << >>] }
    \cup { [kind |-> "text", block |-> "object",
            keys |-> {"missing_info", "new_query"}, new_query |-> qs]
           : qs \in SeqsUpTo(Queries, MaxSuggest) }

\* analysis_response before the first judge call of a session
NoAnswer == [kind |-> "unset", block |-> "none", keys |-> {}, new_query |-> << >>]

\* an answer the judge was not asked to give: a failed call or a text that
\* does not hold the JSON object of the prompt
IsFault(response) == response.kind # "text" \/ response.block # "object"

\* re.search(r'```json\n(.*?)\n```', analysis_response, re.DOTALL) raises
\* TypeError when analysis_response is the error dict
SearchRaises(response) == response.kind # "text"

\* json_match is not None
JsonMatch(response) == response.block # "none"

\* json.loads raises JSONDecodeError
LoadsRaises(response) == response.block = "invalid"

\* '"new_query" in analysis' raises TypeError when analysis is not a container
InRaises(response) == response.block = "scalar"

\* HandleJudge without the "except json.JSONDecodeError" of line 249
HandleJudgeNoExcept(queue, response) ==
    IF SearchRaises(response) THEN [raised |-> TRUE, queue |-> queue]
    ELSE IF ~JsonMatch(response) THEN [raised |-> FALSE, queue |-> queue]
    ELSE IF LoadsRaises(response) THEN [raised |-> TRUE, queue |-> queue]
    ELSE IF InRaises(response) THEN [raised |-> TRUE, queue |-> queue]
    ELSE IF "new_query" \in response.keys
         THEN [raised |-> FALSE, queue |-> queue \o response.new_query]
         ELSE [raised |-> FALSE, queue |-> queue]

\* outcome of lines 238-256 on the queue: raised = TRUE when an exception
\* leaves execute_dynamic_search
HandleJudge(queue, response) ==
    IF SearchRaises(response) THEN [raised |-> TRUE, queue |-> queue]
    ELSE IF ~JsonMatch(response) THEN [raised |-> FALSE, queue |-> queue]
    ELSE IF LoadsRaises(response) THEN [raised |-> FALSE, queue |-> queue]
    ELSE IF InRaises(response) THEN [raised |-> TRUE, queue |-> queue]
    ELSE IF "new_query" \in response.keys
         THEN [raised |-> FALSE, queue |-> queue \o response.new_query]
         ELSE [raised |-> FALSE, queue |-> queue]

\* JudgePrompt that quotes results + current_results
JudgePromptAccumulated(sub, wave, quoted) ==
    [role |-> "user", sub_question |-> sub, depth |-> wave,
     results |-> results \o quoted]

\* the judge prompt of lines 222-236, named by what varies in it: the
\* sub-question, the wave, and the list it quotes under "Current Search
\* Results"
JudgePrompt(sub, wave, quoted) ==
    [role |-> "user", sub_question |-> sub, depth |-> wave, results |-> quoted]

\* history after call_openrouter(prompt, history): the prompt is appended
\* (line 34), and the answer too unless the call raised (line 40)
HistoryAfter(h, prompt, response) ==
    IF response.kind = "text"
    THEN h \o << prompt, [prompt EXCEPT !.role = "assistant"] >>
    ELSE Append(h, prompt)

\* messages sent by line 37: the appended history plus the prompt again
MessagesSent(h, prompt) == h \o << prompt, prompt >>

(***************************************************************************)
(* execute_dynamic_search                                                  *)
(***************************************************************************)
\* Drain without the "if query in processed: continue" of lines 208-209
DrainNoDedup(queue, seen) == queue

\* the while loop of lines 206-213: the queries for which a search is
\* created, in dequeue order, given the seen set
RECURSIVE Drain(_, _)
Drain(queue, seen) ==
    IF queue = << >> THEN << >>
    ELSE IF Head(queue) \in seen THEN Drain(Tail(queue), seen)
         ELSE << Head(queue) >> \o Drain(Tail(queue), seen \cup {Head(queue)})

\* main_flow lines 340-342 and execute_dynamic_search lines 197-199
StartSession ==
    /\ mpc = "next_sub"
    /\ sq < Len(task_plan)
    /\ sq' = sq + 1
    /\ search_queue' = task_plan[sq + 1]
    /\ processed' = {}
    /\ results' = << >>
    /\ depth' = 0
    /\ current_results' = << >>
    /\ tasks' = << >>
    /\ api_responses' = << >>
    /\ analysis_response' = NoAnswer
    /\ mpc' = "drain"
    /\ UNCHANGED << task_plan, history, file, dispatched, judge_calls, faults,
                    suggested, mergeVars >>

\* DrainQueue that creates a search for the first new query only
DrainQueueFirstOnly ==
    /\ mpc = "drain"
    /\ LET wave == Drain(search_queue, processed)
           first == SubSeq(wave, 1, IF wave = << >> THEN 0 ELSE 1)
       IN  /\ tasks' = first
           /\ processed' = processed \cup TokensOf(wave)
           /\ api_responses' = [k \in 1..Len(first) |-> NoResponse]
           /\ dispatched' = dispatched
                  \o [k \in 1..Len(first) |-> << sq, depth, first[k] >>]
    /\ search_queue' = << >>
    /\ current_results' = << >>
    /\ mpc' = "gather"
    /\ UNCHANGED << task_plan, sq, results, depth, history, file, judge_calls,
                    analysis_response, faults, suggested, mergeVars >>

\* lines 203-213: drain the queue into the wave's searches
DrainQueue ==
    /\ mpc = "drain"
    /\ LET wave == Drain(search_queue, processed) IN
       /\ tasks' = wave
       /\ processed' = processed \cup TokensOf(wave)
       /\ api_responses' = [k \in 1..Len(wave) |-> NoResponse]
       /\ dispatched' = dispatched \o [k \in 1..Len(wave) |-> << sq, depth, wave[k] >>]
    /\ search_queue' = << >>
    /\ current_results' = << >>
    /\ mpc' = "gather"
    /\ UNCHANGED << task_plan, sq, results, depth, history, file, judge_calls,
                    analysis_response, faults, suggested, mergeVars >>

\* SearchSucceeds that saves the result as soon as the search returns
SearchSucceedsSaves ==
    /\ mpc = "gather"
    /\ \E k \in 1..Len(tasks) :
         /\ api_responses[k] = NoResponse
         /\ \E ans \in SearchAnswers :
              /\ api_responses' = [api_responses EXCEPT ![k] =
                     [query |-> tasks[k], content |-> ans.content,
                      citations |-> ans.citations]]
              /\ file' = (IF file = FileMissing THEN << >> ELSE file)
                         \o SaveSearchResult(<< tasks[k] >>, ans)
    /\ UNCHANGED << task_plan, mpc, sq, search_queue, processed, results, depth,
                    current_results, tasks, history, dispatched,
                    judge_calls, analysis_response, faults, suggested,
                    mergeVars >>

\* call_perplexity_async for one search of the wave: the provider answers
\* (lines 74-83)
SearchSucceeds ==
    /\ mpc = "gather"
    /\ \E k \in 1..Len(tasks) :
         /\ api_responses[k] = NoResponse
         /\ \E ans \in SearchAnswers :
              api_responses' = [api_responses EXCEPT ![k] =
                  [query |-> tasks[k], content |-> ans.content,
                   citations |-> ans.citations]]
    /\ UNCHANGED << task_plan, mpc, sq, search_queue, processed, results, depth,
                    current_results, tasks, history, file, dispatched,
                    judge_calls, analysis_response, faults, suggested,
                    mergeVars >>

\* SearchFails without the "except Exception" of line 85: the exception
\* leaves asyncio.gather and the session
SearchFailsAborts ==
    /\ mpc = "gather"
    /\ faults < MaxFaults
    /\ \E k \in 1..Len(tasks) : api_responses[k] = NoResponse
    /\ faults' = faults + 1
    /\ mpc' = "aborted"
    /\ UNCHANGED << task_plan, sq, search_queue, processed, results, depth,
                    current_results, tasks, api_responses, history, file,
                    dispatched, judge_calls, analysis_response, suggested,
                    mergeVars >>

\* call_perplexity_async for one search of the wave: the request fails or
\* times out and line 87 returns the error dict
SearchFails ==
    /\ mpc = "gather"
    /\ faults < MaxFaults
    /\ \E k \in 1..Len(tasks) :
         /\ api_responses[k] = NoResponse
         /\ api_responses' = [api_responses EXCEPT ![k] =
                [query |-> tasks[k], content |-> SearchFailure.content,
                 citations |-> SearchFailure.citations]]
    /\ faults' = faults + 1
    /\ UNCHANGED << task_plan, mpc, sq, search_queue, processed, results, depth,
                    current_results, tasks, history, file, dispatched,
                    judge_calls, analysis_response, suggested, mergeVars >>

\* SaveWave that does not wait for every search of the wave
SaveWaveEarly ==
    /\ mpc = "gather"
    /\ file' = IF tasks = << >> THEN file
               ELSE (IF file = FileMissing THEN << >> ELSE file)
                    \o Concat([k \in 1..Len(tasks) |->
                          SaveSearchResult(<< api_responses[k].query >>,
                                           api_responses[k])])
    /\ current_results' = [k \in 1..Len(tasks) |-> api_responses[k].content]
    /\ mpc' = "judge"
    /\ UNCHANGED << task_plan, sq, search_queue, processed, results, depth,
                    tasks, api_responses, history, dispatched, judge_calls,
                    analysis_response, faults, suggested, mergeVars >>

\* lines 215-218: gather returns, every response is saved and collected
SaveWave ==
    /\ mpc = "gather"
    /\ \A k \in 1..Len(tasks) : api_responses[k] # NoResponse
    /\ file' = IF tasks = << >> THEN file
               ELSE (IF file = FileMissing THEN << >> ELSE file)
                    \o Concat([k \in 1..Len(tasks) |->
                          SaveSearchResult(<< api_responses[k].query >>,
                                           api_responses[k])])
    /\ current_results' = [k \in 1..Len(tasks) |-> api_responses[k].content]
    /\ mpc' = "judge"
    /\ UNCHANGED << task_plan, sq, search_queue, processed, results, depth,
                    tasks, api_responses, history, dispatched, judge_calls,
                    analysis_response, faults, suggested, mergeVars >>

\* CallJudge without the "depth < MAX_SEARCH_DEPTH" of line 221
CallJudgeAnyDepth ==
    /\ mpc = "judge"
    /\ current_results # << >>
    /\ \E response \in JudgeResponses :
         LET prompt == JudgePrompt(sq, depth, current_results)
             handled == HandleJudge(search_queue, response)
         IN  /\ IsFault(response) => faults < MaxFaults
             /\ suggested + Len(response.new_query) <= MaxSuggested
             /\ faults' = IF IsFault(response) THEN faults + 1 ELSE faults
             /\ suggested' = suggested + Len(response.new_query)
             /\ analysis_response' = response
             /\ judge_calls' = Append(judge_calls,
                    [sub_question |-> sq, depth |-> depth,
                     results |-> current_results,
                     messages |-> MessagesSent(history, prompt)])
             /\ history' = HistoryAfter(history, prompt, response)
             /\ search_queue' = handled.queue
             /\ mpc' = IF handled.raised THEN "aborted" ELSE "end_wave"
    /\ UNCHANGED << task_plan, sq, processed, results, depth, current_results,
                    tasks, api_responses, file, dispatched, mergeVars >>

\* lines 221-256: the judge call and the handling of its answer.  An
\* exception raised here leaves execute_dynamic_search and asyncio.run and
\* is caught by main_flow (line 353), which ends the run.
CallJudge ==
    /\ mpc = "judge"
    /\ depth < MAX_SEARCH_DEPTH /\ current_results # << >>
    /\ \E response \in JudgeResponses :
         LET prompt == JudgePrompt(sq, depth, current_results)
             handled == HandleJudge(search_queue, response)
         IN  /\ IsFault(response) => faults < MaxFaults
             /\ suggested + Len(response.new_query) <= MaxSuggested
             /\ faults' = IF IsFault(response) THEN faults + 1 ELSE faults
             /\ suggested' = suggested + Len(response.new_query)
             /\ analysis_response' = response
             /\ judge_calls' = Append(judge_calls,
                    [sub_question |-> sq, depth |-> depth,
                     results |-> current_results,
                     messages |-> MessagesSent(history, prompt)])
             /\ history' = HistoryAfter(history, prompt, response)
             /\ search_queue' = handled.queue
             /\ mpc' = IF handled.raised THEN "aborted" ELSE "end_wave"
    /\ UNCHANGED << task_plan, sq, processed, results, depth, current_results,
                    tasks, api_responses, file, dispatched, mergeVars >>

\* line 221 false: no judge call for this wave
SkipJudge ==
    /\ mpc = "judge"
    /\ ~(depth < MAX_SEARCH_DEPTH /\ current_results # << >>)
    /\ mpc' = "end_wave"
    /\ UNCHANGED << task_plan, sq, search_queue, processed, results, depth,
                    current_results, tasks, api_responses, history, file,
                    dispatched, judge_calls, analysis_response, faults,
                    suggested, mergeVars >>

\* EndWave without the "if not search_queue: break" of lines 259-260
EndWaveNoBreak ==
    /\ mpc = "end_wave"
    /\ results' = results \o current_results
    /\ IF depth = MAX_SEARCH_DEPTH
       THEN mpc' = "next_sub" /\ depth' = depth
       ELSE mpc' = "drain" /\ depth' = depth + 1
    /\ UNCHANGED << task_plan, sq, search_queue, processed, current_results,
                    tasks, api_responses, history, file, dispatched,
                    judge_calls, analysis_response, faults, suggested,
                    mergeVars >>

\* lines 258-260 and the end of the for loop
EndWave ==
    /\ mpc = "end_wave"
    /\ results' = results \o current_results
    /\ IF search_queue = << >> \/ depth = MAX_SEARCH_DEPTH
       THEN mpc' = "next_sub" /\ depth' = depth
       ELSE mpc' = "drain" /\ depth' = depth + 1
    /\ UNCHANGED << task_plan, sq, search_queue, processed, current_results,
                    tasks, api_responses, history, file, dispatched,
                    judge_calls, analysis_response, faults, suggested,
                    mergeVars >>

\* main_flow line 346, generate_research_report line 267
GenerateReport ==
    /\ mpc = "next_sub"
    /\ sq = Len(task_plan)
    /\ mpc' = "merge_read"
    /\ UNCHANGED << schedVars, file, mergeVars >>

\* generate_research_report lines 268-277 and main_flow lines 349-351: the
\* report is written, from the merged text or as the failure message
WriteReport ==
    /\ mpc \in {"report", "merge_failed"}
    /\ mpc' = IF mpc = "report" THEN "done" ELSE "done_failed"
    /\ UNCHANGED << schedVars, file, mergeVars >>

(***************************************************************************)
(* The whole run                                                           *)
(***************************************************************************)
\* conversation_history when the search stage starts: the system prompt and
\* the topic discussion
InitialHistory ==
    << [role |-> "system", sub_question |-> 0, depth |-> 0, results |-> << >>] >>

Init ==
    /\ task_plan \in TaskPlans
    /\ mpc = "next_sub"
    /\ sq = 0
    /\ search_queue = << >>
    /\ processed = {}
    /\ results = << >>
    /\ depth = 0
    /\ current_results = << >>
    /\ tasks = << >>
    /\ api_responses = << >>
    /\ history = InitialHistory
    /\ file = FileMissing
    /\ dispatched = << >>
    /\ judge_calls = << >>
    /\ analysis_response = NoAnswer
    /\ faults = 0
    /\ suggested = 0
    /\ sections = << >>
    /\ sidx = 1
    /\ current_global_id = 0
    /\ global_citations = << >>
    /\ citation_maps = << >>
    /\ merged = NotWritten

Next ==
    \/ StartSession
    \/ DrainQueue
    \/ SearchSucceeds
    \/ SearchFails
    \/ SaveWave
    \/ CallJudge
    \/ SkipJudge
    \/ EndWave
    \/ GenerateReport
    \/ ReadAndSplit
    \/ ProcessSection
    \/ WriteMerged
    \/ WriteReport

Spec == Init /\ [][Next]_vars

(***************************************************************************)
(* One session on its own: execute_dynamic_search for one sub-question     *)
(***************************************************************************)
InitSession ==
    /\ task_plan \in {<< seeds >> : seeds \in SeedLists}
    /\ mpc = "next_sub"
    /\ sq = 0
    /\ search_queue = << >>
    /\ processed = {}
    /\ results = << >>
    /\ depth = 0
    /\ current_results = << >>
    /\ tasks = << >>
    /\ api_responses = << >>
    /\ history = InitialHistory
    /\ file = FileMissing
    /\ dispatched = << >>
    /\ judge_calls = << >>
    /\ analysis_response = NoAnswer
    /\ faults = 0
    /\ suggested = 0
    /\ sections = << >>
    /\ sidx = 1
    /\ current_global_id = 0
    /\ global_citations = << >>
    /\ citation_maps = << >>
    /\ merged = NotWritten

NextSession ==
    \/ StartSession
    \/ DrainQueue
    \/ SearchSucceeds
    \/ SearchFails
    \/ SaveWave
    \/ CallJudge
    \/ SkipJudge
    \/ EndWave

\* The session keeps executing: it is one thread of control, every search
\* is bounded by its timeout (line 74) and the judge call is a blocking
\* request that returns or raises.
SpecSession == InitSession /\ [][NextSession]_vars /\ WF_vars(NextSession)

(***************************************************************************)
(* The citation merger on its own: process_citations applied to a result   *)
(* file drawn from a bounded set of documents                              *)
(***************************************************************************)
MaxSections == 3        \* Sections of a result file

\* a citations block that is not there
Absent == << [label |-> << >>, url |-> << >>] >>

\* the lines "<label>. <url>\n" of a citations block
RECURSIVE LabelledLines(_)
LabelledLines(block) ==
    IF block = << >> THEN << >>
    ELSE Head(block).label \o <<".", " ">> \o Head(block).url \o <<"\n">>
         \o LabelledLines(Tail(block))

\* one Section in the format save_search_result writes; the labels of the
\* citation lines and the presence of the citations block are the input's
RawSection(sec) ==
    <<"#", " ">> \o sec.query \o <<"\n">>
    \o <<"#", "#", " ", "content", "\n">>
    \o sec.content \o <<"\n">>
    \o (IF sec.block = Absent THEN << >>
        ELSE <<"#", "#", " ", "citations", "\n">>
             \o (IF sec.block # << >> THEN LabelledLines(sec.block)
                 ELSE NoCitationsLine)
             \o <<"***", "\n", "\n">>)

Cite(label, url) == [label |-> label, url |-> << url >>]

\* the Sections a result file is made of
MergeSections ==
    { \* markers [1][2], two citations
      [query |-> <<"q1">>, content |-> <<"x", "[", "1", "]", "[", "2", "]">>,
       block |-> << Cite(<<"1">>, "http://a"), Cite(<<"2">>, "http://b") >>],
      \* marker [1], one citation
      [query |-> <<"q2">>, content |-> <<"y", "[", "1", "]">>,
       block |-> << Cite(<<"1">>, "http://c") >>],
      \* no marker, the no-citations sentinel
      [query |-> <<"q3">>, content |-> <<"x">>, block |-> << >>],
      \* a marker, the no-citations sentinel
      [query |-> <<"q3">>, content |-> <<"x", "[", "1", "]">>, block |-> << >>],
      \* a bracketed number that is no local id, two citations
      [query |-> <<"q1">>, content |-> <<"x", "[", "7", "]">>,
       block |-> << Cite(<<"1">>, "http://a"), Cite(<<"2">>, "http://b") >>],
      \* a marker, no citations block
      [query |-> <<"q2">>, content |-> <<"x", "[", "1", "]">>, block |-> Absent],
      \* a marker followed by text that ends with a bracket
      [query |-> <<"q1">>, content |-> <<"[", "1", "]", "2", "]">>,
       block |-> << Cite(<<"1">>, "http://a"), Cite(<<"2">>, "http://b") >>],
      \* three citations, printed labels that are not 1..N, the same URL twice
      [query |-> <<"q3">>, content |-> <<"x", "[", "3", "]", "[", "1", "]">>,
       block |-> << Cite(<<"7">>, "http://a"), Cite(<<"7">>, "http://a"),
                    Cite(<<"2">>, "http://c") >>] }

\* text in front of the first header
Prefixes == { << >>, <<"\n">> }

Documents ==
    { pre \o Concat([k \in DOMAIN ss |-> RawSection(ss[k])]) :
        pre \in Prefixes, ss \in SeqsUpTo(MergeSections, MaxSections) }

InitMerge ==
    /\ file \in Documents
    /\ mpc = "merge_read"
    /\ task_plan = << >>
    /\ sq = 0
    /\ search_queue = << >>
    /\ processed = {}
    /\ results = << >>
    /\ depth = 0
    /\ current_results = << >>
    /\ tasks = << >>
    /\ api_responses = << >>
    /\ history = InitialHistory
    /\ dispatched = << >>
    /\ judge_calls = << >>
    /\ analysis_response = NoAnswer
    /\ faults = 0
    /\ suggested = 0
    /\ sections = << >>
    /\ sidx = 1
    /\ current_global_id = 0
    /\ global_citations = << >>
    /\ citation_maps = << >>
    /\ merged = NotWritten

NextMerge ==
    \/ ReadAndSplit
    \/ ProcessSection
    \/ WriteMerged
    \/ WriteReport

SpecMerge == InitMerge /\ [][NextMerge]_vars

(***************************************************************************)
(* Properties of the scheduler (checked under Spec)                        *)
(***************************************************************************)
\* the last judge call was made for the current wave of the current session
JudgedThisWave ==
    /\ judge_calls # << >>
    /\ judge_calls[Len(judge_calls)].sub_question = sq
    /\ judge_calls[Len(judge_calls)].depth = depth

\* the search of task k of the current wave failed
Failed(k) == api_responses[k].content = SearchError

\* C1: within one session no query is dispatched to the search provider
\* more than once: two different entries of the dispatch log never name the
\* same sub-question and the same query, whatever the seeds and the judge's
\* suggestions.
C1_NoQueryDispatchedTwice ==
    \A i, j \in DOMAIN dispatched :
        (i # j /\ dispatched[i][1] = dispatched[j][1])
            => dispatched[i][3] # dispatched[j][3]

\* C1 witness: a session whose seed list names one query twice has
\* dispatched its second wave after the judge suggested that seed again,
\* next to a new query.
C1_Witness ==
    /\ mpc = "gather" /\ depth = 1 /\ tasks # << >>
    /\ Len(task_plan[sq]) = 2
    /\ task_plan[sq][1] = task_plan[sq][2]
    /\ Len(analysis_response.new_query) = 2
    /\ analysis_response.new_query[1] = task_plan[sq][1]

\* C2: a session performs at most MAX_SEARCH_DEPTH + 1 waves (the wave
\* counter never exceeds MAX_SEARCH_DEPTH), no query is dispatched in a wave
\* after wave MAX_SEARCH_DEPTH, the judge is never called for the final wave
\* and is called at most MAX_SEARCH_DEPTH times per session.
C2_DepthBound ==
    /\ depth <= MAX_SEARCH_DEPTH
    /\ \A i \in DOMAIN dispatched : dispatched[i][2] <= MAX_SEARCH_DEPTH
    /\ \A i \in DOMAIN judge_calls : judge_calls[i].depth < MAX_SEARCH_DEPTH
    /\ \A s \in 1..Len(task_plan) :
         Cardinality({i \in DOMAIN judge_calls : judge_calls[i].sub_question = s})
             <= MAX_SEARCH_DEPTH

\* C2 witness: a session has finished after its final wave, which
\* dispatched a query, and after MAX_SEARCH_DEPTH judge calls.
C2_Witness ==
    /\ mpc = "next_sub" /\ sq >= 1 /\ depth = MAX_SEARCH_DEPTH
    /\ \E i \in DOMAIN dispatched :
         dispatched[i][1] = sq /\ dispatched[i][2] = MAX_SEARCH_DEPTH
    /\ Cardinality({i \in DOMAIN judge_calls : judge_calls[i].sub_question = sq})
           = MAX_SEARCH_DEPTH

\* C3: a failing search does not abort its wave.  The run is only ever
\* aborted by the handling of a judge answer; once a wave is gathered the
\* file holds one Section per dispatched query, the Sections of the wave
\* being the last ones, in order: the failed query's Section has the error
\* description as content and the no-citations line, the others their
\* content and numbered citations; and when depth < MAX_SEARCH_DEPTH the
\* judge call of the wave has been made before the wave ends.
C3_FailureIsolated ==
    LET pieces == NonEmpty(SplitSections(IF file = FileMissing THEN << >> ELSE file))
    IN  /\ mpc = "aborted" => analysis_response # NoAnswer /\ JudgedThisWave
        /\ mpc \in {"judge", "end_wave"} =>
             /\ Len(pieces) = Len(dispatched)
             /\ \A k \in 1..Len(tasks) :
                  pieces[Len(dispatched) - Len(tasks) + k]
                    = <<"#", " ", tasks[k], "\n", "#", "#", " ", "content", "\n">>
                      \o (IF Failed(k)
                          THEN SearchError
                               \o <<"\n", "#", "#", " ", "citations", "\n">>
                               \o NoCitationsLine
                          ELSE api_responses[k].content
                               \o <<"\n", "#", "#", " ", "citations", "\n">>
                               \o CitationLines(api_responses[k].citations, 1))
                      \o <<"***", "\n", "\n">>
        /\ (mpc = "end_wave" /\ depth < MAX_SEARCH_DEPTH /\ tasks # << >>)
               => JudgedThisWave

\* C3 witness: a wave of two searches, one failed and one answered, has been
\* saved and its judge call has returned.
C3_Witness ==
    /\ mpc = "end_wave" /\ depth < MAX_SEARCH_DEPTH
    /\ Len(tasks) = 2
    /\ \E k, l \in 1..2 : Failed(k) /\ ~Failed(l)
    /\ JudgedThisWave

\* C4: a failure of the judge call itself is never fatal: when
\* call_openrouter has returned its error value, the run is not aborted.
C4_JudgeCallFailureNotFatal ==
    analysis_response.kind = "error" => mpc # "aborted"

\* the judge's text carries no suggestion: no fenced block, a block that is
\* not JSON, or a JSON object without new_query or with the empty list
NoSuggestion(response) ==
    /\ response.kind = "text"
    /\ \/ response.block \in {"none", "invalid"}
       \/ /\ response.block = "object"
          /\ "new_query" \notin response.keys \/ response.new_query = << >>

\* C5: when the judge's text has no fenced JSON block, a block that is not
\* valid JSON, or a JSON object without suggestions, the step that handles
\* the answer leaves the work queue as it was, lets no error escape and
\* hands over to the stop check of the wave.
C5_NoSuggestionNoExpansion ==
    [][(mpc = "judge" /\ judge_calls' # judge_calls
            /\ NoSuggestion(analysis_response'))
        => (search_queue' = search_queue /\ mpc' = "end_wave")]_vars

\* C5 witness: the judge's answer to the current wave held a block that is
\* not valid JSON and the session is at its stop check with an empty queue.
C5_Witness ==
    /\ mpc = "end_wave" /\ JudgedThisWave
    /\ analysis_response.kind = "text" /\ analysis_response.block = "invalid"
    /\ search_queue = << >>

(***************************************************************************)
(* Properties of the citation merger (checked under SpecMerge)             *)
(***************************************************************************)
\* the pieces of the file as they were read
Orig == SplitSections(file)

\* the URLs of a text, in order
UrlsOf(t) == SelectSeq(t, IsUrl)

\* number of URLs in the first n pieces
RECURSIVE SumUrls(_, _)
SumUrls(pieces, n) ==
    IF n = 0 THEN 0 ELSE SumUrls(pieces, n - 1) + Len(UrlsOf(pieces[n]))

\* the piece holds no "## citations" line
NoBlock(piece) ==
    \A p \in 1..Len(piece) : ~StartsWith(piece, p, CitationsLiteral)

\* the piece up to its "## citations" line: header and content
HeadOf(piece) ==
    IF NoBlock(piece) THEN piece
    ELSE Slice(piece, 1,
               Min({p \in 1..Len(piece) : StartsWith(piece, p, CitationsLiteral)}) - 1)

\* the piece from its "## citations" line on
BlockOf(piece) ==
    IF NoBlock(piece) THEN << >>
    ELSE Slice(piece,
               Min({p \in 1..Len(piece) : StartsWith(piece, p, CitationsLiteral)}),
               Len(piece))

\* a bracket group "[digits]" starts at b
GroupAt(t, b) ==
    /\ t[b] = "["
    /\ RunEnd(t, b + 1, DigitSet) >= b + 1
    /\ RunEnd(t, b + 1, DigitSet) + 1 <= Len(t)
    /\ t[RunEnd(t, b + 1, DigitSet) + 1] = "]"

\* the numbers held by the bracket groups of a text, in order
RECURSIVE GroupsFrom(_, _)
GroupsFrom(t, p) ==
    LET bs == {b \in p..Len(t) : GroupAt(t, b)} IN
    IF bs = {} THEN << >>
    ELSE << ToInt(Slice(t, Min(bs) + 1, RunEnd(t, Min(bs) + 1, DigitSet))) >>
         \o GroupsFrom(t, RunEnd(t, Min(bs) + 1, DigitSet) + 2)

Groups(t) == GroupsFrom(t, 1)

\* the citation lines "<label>. <url>" of a text, in order
RECURSIVE LinesFrom(_, _)
LinesFrom(t, p) ==
    LET us == {u \in p..Len(t) : IsUrl(t[u])} IN
    IF us = {} THEN << >>
    ELSE LET u == Min(us)
             a == Min({b \in 1..(u - 3) : \A k \in b..(u - 3) : IsDigit(t[k])})
         IN  << [label |-> ToInt(Slice(t, a, u - 3)), url |-> t[u]] >>
             \o LinesFrom(t, u + 1)

LinesOf(t) == LinesFrom(t, 1)

\* number of bracket groups the first n matches are replaced by
RECURSIVE GroupsBefore(_, _)
GroupsBefore(matches, n) ==
    IF n = 0 THEN 0 ELSE GroupsBefore(matches, n - 1) + Len(matches[n])

\* C6: the global ids come from one counter that starts at 0 and is never
\* reset: the section whose citations block lists n URLs, after sections
\* that list b URLs in all, gets the map 1 -> b+1, ..., n -> b+n, whatever
\* the printed labels and the URLs are; every section that lists URLs and
\* has been passed has its map, and global_citations holds "g. url" for the
\* g-th URL of the document.
C6_GlobalIdsByPosition ==
    LET orig == Orig IN
        /\ \A j \in DOMAIN citation_maps :
             LET e == citation_maps[j]
                 n == Len(UrlsOf(orig[e.section]))
                 b == SumUrls(orig, e.section - 1)
             IN  e.map = [i \in 1..n |-> b + i]
        /\ \A s \in 1..Len(sections) :
             (s < sidx /\ UrlsOf(orig[s]) # << >>)
                 => \E j \in DOMAIN citation_maps : citation_maps[j].section = s
        /\ Len(global_citations) = current_global_id
        /\ \A g \in DOMAIN global_citations :
             global_citations[g] = Str(g) \o <<".", " ", UrlsOf(file)[g]>>

\* C6 witness: the merge is complete for sections with 2, 0 and 3 citations,
\* which got the ids 1,2 / none / 3,4,5.
C6_Witness ==
    /\ mpc = "report"
    /\ Len(citation_maps) = 3
    /\ citation_maps[1].map = <<1, 2>>
    /\ citation_maps[2].map = << >>
    /\ citation_maps[3].map = <<3, 4, 5>>

\* C7: in a rewritten section with N >= 1 citations whose bracket groups
\* all hold a local id in 1..N, the bracket groups of header and content
\* after the merge are, group for group and in the same order, the global
\* ids mapped from the local ids before the merge: no group is added,
\* dropped or merged.
C7_GroupForGroup ==
    LET orig == Orig IN
        \A j \in DOMAIN citation_maps :
            LET e == citation_maps[j]
                before == Groups(HeadOf(orig[e.section]))
                after == Groups(HeadOf(sections[e.section]))
            IN  (/\ e.section < sidx
                 /\ Len(e.map) >= 1
                 /\ \A k \in DOMAIN before : before[k] \in DOMAIN e.map)
                => after = [k \in DOMAIN before |-> e.map[before[k]]]

\* C8: after the merge every marker is consistent with the citation list of
\* its own section: a marker that held local id i holds an id that labels
\* line i of the section's rewritten citations block, and that line names
\* the URL that was at position i of the original list.
C8_MarkersMatchList ==
    LET orig == Orig IN
        \A j \in DOMAIN citation_maps :
            LET e == citation_maps[j]
                matches == MarkerMatches(HeadOf(orig[e.section]), 1)
                after == Groups(HeadOf(sections[e.section]))
                lines == LinesOf(BlockOf(sections[e.section]))
                urls == UrlsOf(orig[e.section])
            IN  e.section < sidx =>
                  /\ Len(lines) = Len(urls)
                  /\ \A k \in DOMAIN matches :
                       LET i == matches[k][1]
                           at == GroupsBefore(matches, k - 1) + 1
                       IN  /\ i \in 1..Len(urls)
                           /\ at <= Len(after)
                           /\ lines[i].label = after[at]
                           /\ lines[i].url = urls[i]

\* C8 witness: the merge is complete and a section whose marker held local
\* id 1 now holds 3 and lists "3. http://c".
C8_Witness ==
    LET orig == Orig IN
        /\ mpc = "report"
        /\ \E j \in DOMAIN citation_maps :
             /\ citation_maps[j].map = <<3>>
             /\ Groups(HeadOf(orig[citation_maps[j].section])) = <<1>>
             /\ Groups(HeadOf(sections[citation_maps[j].section])) = <<3>>
             /\ LinesOf(BlockOf(sections[citation_maps[j].section]))
                    = << [label |-> 3, url |-> "http://c"] >>

\* C9: a section whose citations block lists no URL gets no global id and
\* is passed through: the merge does not fail on it, goes on to the next
\* section and leaves the bracket groups of its content as they were.
C9_ZeroCitationsPassThrough ==
    LET orig == Orig IN
        \A j \in DOMAIN citation_maps :
            LET e == citation_maps[j] IN
            e.map = << >> =>
                /\ SumUrls(orig, e.section) = SumUrls(orig, e.section - 1)
                /\ e.section < sidx
                /\ Groups(HeadOf(sections[e.section])) = Groups(HeadOf(orig[e.section]))

\* C10: a section without a citations block is never rewritten and gets no
\* citation map (it consumes no global id); once the merged file is written
\* it holds every such section as it was; and when no section of the
\* document has a citations block the merged file is the pieces of the
\* document joined by newlines, with the counter still at 0.
C10_NoBlockUntouched ==
    LET orig == Orig IN
        /\ \A s \in 1..Len(sections) :
             NoBlock(orig[s]) =>
                /\ sections[s] = orig[s]
                /\ \A j \in DOMAIN citation_maps : citation_maps[j].section # s
        /\ merged # NotWritten =>
             /\ \A s \in 1..Len(sections) :
                  NoBlock(orig[s]) =>
                     \E p \in 1..(Len(merged) + 1) : StartsWith(merged, p, orig[s])
             /\ (\A s \in 1..Len(sections) : NoBlock(orig[s])) =>
                    /\ merged = Join(NonEmpty(orig), <<"\n">>)
                    /\ current_global_id = 0

\* C10 witness: the merged file is written for a document with a section
\* that has a marker and no citations block, next to sections that got
\* global ids.
C10_Witness ==
    LET orig == Orig IN
        /\ merged # NotWritten
        /\ current_global_id > 0
        /\ \E s \in 1..Len(sections) :
             /\ NoBlock(orig[s])
             /\ Groups(orig[s]) # << >>
             /\ \E p \in 1..Len(merged) : StartsWith(merged, p, orig[s])

\* the pieces that hold more than white space, in order
RECURSIVE NonBlank(_)
NonBlank(ss) ==
    IF ss = << >> THEN << >>
    ELSE IF IsBlank(Head(ss)) THEN NonBlank(Tail(ss))
         ELSE << Head(ss) >> \o NonBlank(Tail(ss))

\* C11: once the merged file is written it is made of the pieces that hold
\* more than white space, in their original order, joined by newlines: a
\* piece that is empty or holds only white space contributes no text.
C11_BlankPiecesDropped ==
    merged # NotWritten => merged = Join(NonBlank(sections), <<"\n">>)

\* the first line of a piece, with its newline
HeaderLine(piece) ==
    Slice(piece, 1, Min({p \in 1..Len(piece) : piece[p] = "\n" \/ p = Len(piece)}))

\* the literal occurs somewhere in the text
Occurs(lit, t) == \E p \in 1..Len(t) : StartsWith(t, p, lit)

\* C12: a section that had a citations block keeps, after the merge, its
\* header line, its "## content" block and its "## citations" block; the
\* block lists the URLs it listed before, in the same order, labelled with
\* the section's global ids, and a block that listed no URL still carries
\* the line "No citations available".
C12_BlockStructureKept ==
    LET orig == Orig IN
        \A j \in DOMAIN citation_maps :
            LET e == citation_maps[j]
                was == orig[e.section]
                now == sections[e.section]
                lines == LinesOf(BlockOf(now))
            IN  e.section < sidx =>
                  /\ StartsWith(now, 1, HeaderLine(was)
                                        \o <<"#", "#", " ", "content", "\n">>)
                  /\ ~NoBlock(now)
                  /\ [i \in DOMAIN lines |-> lines[i].url] = UrlsOf(BlockOf(was))
                  /\ [i \in DOMAIN lines |-> lines[i].label] = e.map
                  /\ e.map = << >> => Occurs(NoCitationsLine, BlockOf(now))

(***************************************************************************)
(* Properties of the judge's input (checked under Spec)                    *)
(***************************************************************************)
\* the judge call made for the current wave
ThisCall == judge_calls[Len(judge_calls)]

\* the prompt of a judge call: the last message of the request
PromptOf(call) == call.messages[Len(call.messages)]

\* what the judge prompt of wave j of sub-question s quotes, as found in a
\* request; empty when the request holds no such prompt
QuotedFor(msgs, s, j) ==
    LET ms == {m \in DOMAIN msgs : /\ msgs[m].role = "user"
                                   /\ msgs[m].sub_question = s
                                   /\ msgs[m].depth = j}
    IN  IF ms = {} THEN << >> ELSE msgs[Min(ms)].results

\* the contents returned by the searches of the current wave, in task order
WaveContents == [k \in 1..Len(tasks) |-> api_responses[k].content]

IsAnswer(content) == content # SearchError

\* C14: the prompt of the judge call of a wave quotes the contents of the
\* searches of the wave that succeeded, in task order, and nothing else:
\* the error description of a failed search is not quoted.
C14_JudgeGetsSuccessfulOnly ==
    (mpc = "end_wave" /\ JudgedThisWave)
        => PromptOf(ThisCall).results = SelectSeq(WaveContents, IsAnswer)

(***************************************************************************)
(* Order of the waves (checked under Spec)                                 *)
(***************************************************************************)
\* C15: waves are strictly sequential.  A step that dispatches searches
\* starts from a state in which every search of the previous wave has
\* returned and, after wave 0, the judge call of the previous wave has
\* returned; the searches it dispatches all belong to the wave that starts
\* and, after wave 0, are queries of that judge's answer.  The step that
\* handles a judge answer dispatches nothing and leaves the wave's tasks as
\* they are: the queries it enqueues never join the wave that was judged.
C15_WavesSequential ==
    [][ /\ (dispatched' # dispatched) =>
            /\ \A k \in DOMAIN api_responses : api_responses[k] # NoResponse
            /\ depth >= 1 =>
                 /\ judge_calls # << >>
                 /\ ThisCall.sub_question = sq /\ ThisCall.depth = depth - 1
            /\ SubSeq(dispatched', 1, Len(dispatched)) = dispatched
            /\ \A i \in (Len(dispatched) + 1)..Len(dispatched') :
                 /\ dispatched'[i][1] = sq /\ dispatched'[i][2] = depth
                 /\ depth >= 1 =>
                      dispatched'[i][3] \in TokensOf(analysis_response.new_query)
        /\ (judge_calls' # judge_calls) =>
            /\ dispatched' = dispatched /\ tasks' = tasks
            /\ api_responses' = api_responses
            /\ depth' = depth
      ]_vars

\* C15 witness: wave 1 of the first session has been dispatched with the two
\* queries the judge suggested after the one search of wave 0, and one of
\* its searches has returned.
C15_Witness ==
    /\ mpc = "gather" /\ depth = 1 /\ Len(tasks) = 2
    /\ sq = 1 /\ Len(dispatched) = 3
    /\ \E k \in 1..2 : api_responses[k] # NoResponse

(***************************************************************************)
(* End of a session (checked under SpecSession)                            *)
(***************************************************************************)
\* the session of the current sub-question is running
InSession == mpc \in {"drain", "gather", "judge", "end_wave"}

\* C16: a session whose queue is empty at the stop check of a wave ends
\* there, whatever the depth, by returning and not by an error; a wave that
\* dispatched no search makes no judge call and ends the session; and every
\* session that has started is eventually over: it has returned, or an
\* exception has left it and ended the run.
C16_StopsOnEmptyQueue ==
    /\ [][ /\ (mpc = "end_wave" /\ search_queue = << >>) => mpc' = "next_sub"
           /\ (mpc = "gather" /\ tasks = << >>) =>
                 (mpc' = "judge" /\ dispatched' = dispatched)
           /\ (mpc = "judge" /\ tasks = << >>) =>
                 /\ judge_calls' = judge_calls /\ search_queue' = << >>
                 /\ mpc' = "end_wave"
         ]_vars
    /\ InSession ~> (mpc \in {"next_sub", "aborted"})

\* C16 witness: a session has returned after wave 1, before the depth
\* bound, and wave 1 dispatched nothing because the judge had only
\* suggested a query that was already seen.
C16_Witness ==
    /\ mpc = "next_sub" /\ sq >= 1
    /\ depth = 1 /\ depth < MAX_SEARCH_DEPTH
    /\ tasks = << >>
    /\ analysis_response.new_query # << >>
    /\ TokensOf(analysis_response.new_query) \subseteq processed

(***************************************************************************)
(* Failures of the citation merger (checked under SpecMerge)               *)
(***************************************************************************)
\* C17: the merge never fails on a section that lists N >= 1 citations:
\* when process_citations has been left by an exception raised while a
\* section was rewritten, that section listed no citation.
C17_DanglingMarkerNotFatal ==
    (mpc \in {"merge_failed", "done_failed"} /\ citation_maps # << >>)
        => citation_maps[Len(citation_maps)].map = << >>

(***************************************************************************)
(* State shared between sessions (checked under Spec)                      *)
(***************************************************************************)
\* C18: a session leaves nothing but Sections of the result file to the
\* sessions after it: the request of every judge call holds the initial
\* conversation and messages of the call's own sub-question only, so what
\* the judge receives does not depend on the sub-questions processed
\* before.
C18_JudgeInputIndependent ==
    \A i \in DOMAIN judge_calls :
        \A m \in DOMAIN judge_calls[i].messages :
            judge_calls[i].messages[m].sub_question
                \in {0, judge_calls[i].sub_question}

(***************************************************************************)
(* Order of the result file (checked under Spec)                           *)
(***************************************************************************)
\* the Sections of the result file
Saved == NonEmpty(SplitSections(IF file = FileMissing THEN << >> ELSE file))

\* the query named by the header line "# <query>" of a Section
QueryOf(piece) == piece[3]

\* number of dispatched searches whose wave has been gathered
Gathered == IF mpc = "gather" THEN Len(dispatched) - Len(tasks) ELSE Len(dispatched)

\* C19: the result file holds one Section per search of every gathered wave
\* and none of a wave that is still in flight, whichever of its searches
\* have returned; the Sections are in dispatch order, so those of one wave
\* are in dequeue order and precede those of the next wave; and the
\* Sections of a wave are in the file when its judge call is made, which
\* does not write the file.
C19_SectionsInDispatchOrder ==
    LET saved == Saved IN
        /\ Len(saved) = Gathered
        /\ \A i \in 1..Gathered : QueryOf(saved[i]) = dispatched[i][3]
        /\ \A i, j \in 1..Len(dispatched) :
             (i < j /\ dispatched[i][1] = dispatched[j][1])
                 => dispatched[i][2] <= dispatched[j][2]
        /\ \A c \in DOMAIN judge_calls :
             \A i \in DOMAIN dispatched :
                 (/\ dispatched[i][1] = judge_calls[c].sub_question
                  /\ dispatched[i][2] = judge_calls[c].depth) => i <= Len(saved)

\* C19 witness: the two searches of wave 1 are in flight, the second one
\* has returned before the first, and the file holds the Sections of
\* wave 0 only.
C19_Witness ==
    /\ mpc = "gather" /\ depth = 1 /\ Len(tasks) = 2
    /\ api_responses[1] = NoResponse /\ api_responses[2] # NoResponse
    /\ Len(Saved) = Len(dispatched) - 2 /\ Len(Saved) >= 1

(***************************************************************************)
(* No query is lost (checked under Spec)                                   *)
(***************************************************************************)
\* the queries dispatched by the current session, in all waves or in wave w
DispatchedHere == {dispatched[i][3] : i \in {j \in DOMAIN dispatched :
                                                dispatched[j][1] = sq}}

DispatchedInWave(w) ==
    {dispatched[i][3] : i \in {j \in DOMAIN dispatched :
                                   dispatched[j][1] = sq /\ dispatched[j][2] = w}}

\* the queries that have a Section written by the current session
PersistedHere ==
    LET saved == Saved IN
    {QueryOf(saved[i]) : i \in {j \in 1..Len(saved) : dispatched[j][1] = sq}}

\* C20: no query that is not yet seen is lost.  The seen-set is always the
\* set of queries the session has dispatched, and outside a wave in flight
\* it is the set of queries with a Section written by the session; wave 0
\* dispatches exactly the distinct seeds; a wave after it dispatches exactly
\* the queries of the last judge answer that were not seen; and a session
\* whose judge returned a query not yet seen, before the depth bound, goes
\* on to the next wave.
C20_NoQueryLost ==
    /\ [](sq >= 1 =>
            /\ processed = DispatchedHere
            /\ mpc # "gather" => processed = PersistedHere
            /\ (mpc # "drain" \/ depth > 0)
                   => DispatchedInWave(0) = TokensOf(task_plan[sq]))
    /\ [][ /\ (mpc = "drain" /\ depth >= 1) =>
                 TokensOf(tasks') = TokensOf(analysis_response.new_query) \ processed
           /\ (/\ mpc = "end_wave" /\ JudgedThisWave
               /\ TokensOf(analysis_response.new_query) \ processed # {})
                 => (mpc' = "drain" /\ depth' = depth + 1
                     /\ search_queue' = analysis_response.new_query)
         ]_vars

\* C20 witness: after wave 0 the judge returned a seen query and a new one,
\* and wave 1 has dispatched and saved the new one only.
C20_Witness ==
    /\ mpc = "judge" /\ depth = 1
    /\ Len(analysis_response.new_query) = 2
    /\ Len(tasks) = 1
    /\ \E k \in 1..2 : analysis_response.new_query[k] \in TokensOf(task_plan[sq])
    /\ processed = TokensOf(task_plan[sq]) \cup TokensOf(tasks)

====
